---------------------------- MODULE Spec2Model ----------------------------
(***************************************************************************)
(* A model of translate_pdf.py: the conversion of one PDF document into a  *)
(* Word document, page by page and block by block, with the translation    *)
(* gate (translate_text), the span reassembler (join_spans), the table     *)
(* heuristic (merge_spans_for_table, is_table_block), the list heuristic   *)
(* and the image deduplication by fingerprint.                             *)
(*                                                                         *)
(* A text is a sequence of characters, each character a one-token string.  *)
(* "U+4E2D" stands for a character of the range U+4E00..U+9FFF and         *)
(* "U+2022" for the bullet character.  A byte payload is a sequence of     *)
(* small numbers.  An optional value is a record [some, val].              *)
(***************************************************************************)
EXTENDS Integers, Sequences, FiniteSets

VARIABLES
    pool,              \* the family of documents the extractor serves
    pc,                \* the position in translate_pdf_to_word_with_styles_improved
    num_pages,         \* len(pdf_doc)
    page_num,          \* the page loop's variable
    blocks,            \* the page's blocks after blocks.sort
    page_left_margin,  \* the page's left margin reference
    bi,                \* the block loop's position in blocks
    line_text,         \* join_spans' result for each line of the block
    units,             \* the block's translation units, in emission order
    ui,                \* the unit loop's position in units
    gate,              \* translate_text's frame: text, attempt, translated_text,
                       \* and what the model did in the last attempt
    processed_keys,    \* the fingerprints seen in this conversion
    images,            \* page.get_images(full=True) of the page
    ii,                \* the fallback loop's position in images
    word_doc,          \* the document sink
    item,              \* the table or paragraph last added to the sink (table, p)
    written,           \* the text last handed to the sink, with where it came from
    seen               \* the image payloads resolved so far

vars == <<pool, pc, num_pages, page_num, blocks, page_left_margin, bi, line_text,
          units, ui, gate, processed_keys, images, ii, word_doc, item, written,
          seen>>

---------------------------------------------------------------------------
(* Bounds of the model.                                                    *)

MaxPages == 2
MaxBlocks == 2
MaxLines == 2
MaxSpans == 3
MaxBlockSpans == 5
MaxImages == 1

(* Constants of the program.                                               *)

max_attempts == 3
QualityPercent == 15
gap_threshold_text == 3
gap_threshold_table == 10

---------------------------------------------------------------------------
(* Optional values and texts.                                              *)

None == [some |-> FALSE, val |-> <<>>]
Some(v) == [some |-> TRUE, val |-> v]

Chinese == "U+4E2D"
Bullet == "U+2022"

IsSpace(c) == c \in {" ", "\n", "\t"}
IsDigit(c) == c \in {"0", "1", "2", "3", "4", "5", "6", "7", "8", "9"}
IsChinese(c) == c = Chinese

RECURSIVE SpaceRun(_, _)
\* The number of consecutive whitespace characters of s from position i on.
SpaceRun(s, i) ==
    IF i <= Len(s) /\ IsSpace(s[i]) THEN 1 + SpaceRun(s, i + 1) ELSE 0

RECURSIVE DigitRun(_, _)
\* The number of consecutive digits of s from position i on.
DigitRun(s, i) ==
    IF i <= Len(s) /\ IsDigit(s[i]) THEN 1 + DigitRun(s, i + 1) ELSE 0

RECURSIVE TrailingSpaces(_)
TrailingSpaces(s) ==
    IF Len(s) > 0 /\ IsSpace(s[Len(s)])
    THEN 1 + TrailingSpaces(SubSeq(s, 1, Len(s) - 1))
    ELSE 0

\* str.strip(): the text without its leading and trailing whitespace.
strip(s) ==
    LET lead == SpaceRun(s, 1)
        rest == SubSeq(s, lead + 1, Len(s))
    IN  SubSeq(rest, 1, Len(rest) - TrailingSpaces(rest))

\* text.replace('\n', ' ').strip(): what translate_text hands to the model.
processed_text(text) ==
    strip([i \in 1..Len(text) |-> IF text[i] = "\n" THEN " " ELSE text[i]])

RECURSIVE CountChinese(_)
CountChinese(s) ==
    IF s = <<>> THEN 0
    ELSE (IF IsChinese(Head(s)) THEN 1 ELSE 0) + CountChinese(Tail(s))

\* chinese_ratio >= 0.15, with chinese_ratio = 0 for an empty candidate.
ratio_ok(candidate_text) ==
    /\ Len(candidate_text) > 0
    /\ CountChinese(candidate_text) * 100 >= QualityPercent * Len(candidate_text)

---------------------------------------------------------------------------
(* The list patterns.  Each operator gives the length of the match of the  *)
(* pattern at the start of the text, 0 when the pattern does not match.    *)

\* ^\s*\d+[\.\)]\s+
list_pattern_number(text) ==
    LET lead == SpaceRun(text, 1)
        digits == DigitRun(text, lead + 1)
        p == lead + digits + 1
        ws == SpaceRun(text, p + 1)
    IN  IF digits >= 1 /\ p <= Len(text) /\ text[p] \in {".", ")"} /\ ws >= 1
        THEN p + ws
        ELSE 0

\* ^\s*[•\-\*•]\s+
list_pattern_bullet(text) ==
    LET lead == SpaceRun(text, 1)
        p == lead + 1
        ws == SpaceRun(text, p + 1)
    IN  IF p <= Len(text) /\ text[p] \in {Bullet, "-", "*"} /\ ws >= 1
        THEN p + ws
        ELSE 0

\* re.sub(pattern, "", text, count=1).strip() for a match of length n.
strip_marker(text, n) == strip(SubSeq(text, n + 1, Len(text)))

---------------------------------------------------------------------------
(* Geometry: bbox = <<x0, y0, x1, y1>>.                                    *)

x0_of(s) == s.bbox[1]
y0_of(s) == s.bbox[2]
x1_of(s) == s.bbox[3]

RECURSIVE InsertByKey(_, _, _)
\* e put into the sorted sequence after every element whose key is <= e's.
InsertByKey(sorted, e, k) ==
    IF sorted = <<>> THEN <<e>>
    ELSE IF Head(sorted).bbox[k] <= e.bbox[k]
         THEN <<Head(sorted)>> \o InsertByKey(Tail(sorted), e, k)
         ELSE <<e>> \o sorted

RECURSIVE SortedFrom(_, _, _, _)
SortedFrom(seq, i, acc, k) ==
    IF i > Len(seq) THEN acc
    ELSE SortedFrom(seq, i + 1, InsertByKey(acc, seq[i], k), k)

\* sorted(seq, key=lambda s: s["bbox"][k-1]): a stable sort.
sorted_by(seq, k) == SortedFrom(seq, 1, <<>>, k)

RECURSIVE JoinLoop(_, _, _, _)
JoinLoop(sorted_spans, i, text, last_right) ==
    IF i > Len(sorted_spans) THEN text
    ELSE LET span == sorted_spans[i]
             gap == x0_of(span) - last_right
         IN  JoinLoop(sorted_spans, i + 1,
                      IF gap > gap_threshold_text
                      THEN text \o <<" ">> \o span.text
                      ELSE text \o span.text,
                      x1_of(span))

\* The reassembly without the sort of the spans.
join_spans_unsorted(spans) ==
    IF spans = <<>> THEN <<>>
    ELSE JoinLoop(spans, 2, spans[1].text, x1_of(spans[1]))

join_spans(spans) ==
    IF spans = <<>> THEN <<>>
    ELSE LET sorted_spans == sorted_by(spans, 1)
         IN  JoinLoop(sorted_spans, 2, sorted_spans[1].text, x1_of(sorted_spans[1]))

RECURSIVE MergeLoop(_, _, _, _, _)
MergeLoop(sorted_spans, i, cells, current_cell_text, current_cell_end) ==
    IF i > Len(sorted_spans) THEN Append(cells, strip(current_cell_text))
    ELSE LET span == sorted_spans[i]
             gap == x0_of(span) - current_cell_end
         IN  IF gap < gap_threshold_table
             THEN MergeLoop(sorted_spans, i + 1, cells,
                            current_cell_text \o <<" ">> \o span.text, x1_of(span))
             ELSE MergeLoop(sorted_spans, i + 1,
                            Append(cells, strip(current_cell_text)),
                            span.text, x1_of(span))

merge_spans_for_table(spans) ==
    LET sorted_spans == sorted_by(spans, 1)
    IN  IF sorted_spans = <<>> THEN <<>>
        ELSE MergeLoop(sorted_spans, 2, <<>>, sorted_spans[1].text,
                       x1_of(sorted_spans[1]))

\* The heuristic without the comparison of the cell counts.
is_table_block_any_count(block) ==
    LET lines == block.lines
    IN  /\ Len(lines) >= 2
        /\ \A i \in 1..Len(lines) : Len(merge_spans_for_table(lines[i].spans)) >= 2

is_table_block(block) ==
    LET lines == block.lines
        cell_counts == {Len(merge_spans_for_table(lines[i].spans)) : i \in 1..Len(lines)}
    IN  /\ Len(lines) >= 2
        /\ \A n \in cell_counts : n >= 2
        /\ Cardinality(cell_counts) = 1

---------------------------------------------------------------------------
(* What the collaborators can hand to the conversion.                      *)

Span(text, x0, x1) == [text |-> text, bbox |-> <<x0, 0, x1, 1>>]

\* The spans the page extractor can report, in two pools.  The boxes of the
\* first put the cases of the text threshold next to each other: 2->5 is a
\* gap of 3, 10->14 of 4, 2->14 of 12, and (5,10) overlaps (7,10).
TextSpans ==
    { Span(<<" ">>, 0, 2),
      Span(<<"1", ".">>, 5, 10),
      Span(<<"-">>, 7, 10),
      Span(<<"a">>, 14, 17) }

\* The boxes of the second put the cases of the table threshold next to each
\* other: 5->15 and 30->40 are gaps of 10, 18->27 of 9.
TableSpans ==
    { Span(<<"2", ")">>, 0, 5),
      Span(<<"b">>, 15, 18),
      Span(<<" ">>, 27, 30),
      Span(<<" ">>, 40, 42) }

SeqsUpTo(S, n) == UNION {[1..k -> S] : k \in 0..n}

Lines(spans) == {[spans |-> ss] : ss \in SeqsUpTo(spans, MaxSpans)}

RECURSIVE SpanCount(_)
SpanCount(lines) ==
    IF lines = <<>> THEN 0 ELSE Len(Head(lines).spans) + SpanCount(Tail(lines))

\* The lines of a text block: up to MaxLines lines of up to MaxSpans spans of
\* one pool, MaxBlockSpans spans in all.
BlockLines(spans) ==
    {ls \in SeqsUpTo(Lines(spans), MaxLines) : SpanCount(ls) <= MaxBlockSpans}

\* A byte payload; <<>> is the empty payload.
Payloads == {<<>>, <<1>>, <<1, 2>>, <<2, 1>>}

NoRef == [tag |-> "none", val |-> <<>>]
BytesRef(b) == [tag |-> "bytes", val |-> b]
IntRef == [tag |-> "int", val |-> <<7>>]
BadRef == [tag |-> "str", val |-> <<>>]

TextBlock(lines, y0) ==
    [type |-> 0, bbox |-> <<0, y0, 40, y0 + 1>>, lines |-> lines,
     xref |-> NoRef, image |-> NoRef, pos |-> 0]
ImageBlock(xref, image, y0) ==
    [type |-> 1, bbox |-> <<0, y0, 40, y0 + 1>>, lines |-> <<>>,
     xref |-> xref, image |-> image, pos |-> 0]
OtherBlock(y0) ==
    [type |-> 2, bbox |-> <<0, y0, 40, y0 + 1>>, lines |-> <<>>,
     xref |-> NoRef, image |-> NoRef, pos |-> 0]

YPool == {0, 1}

NonTextBlocks(payloads, ys) ==
    {ImageBlock(NoRef, NoRef, y) : y \in ys}
    \cup {ImageBlock(NoRef, BytesRef(b), y) : b \in payloads, y \in ys}
    \cup {ImageBlock(IntRef, NoRef, y) : y \in ys}
    \cup {ImageBlock(BadRef, NoRef, y) : y \in ys}
    \cup {OtherBlock(y) : y \in ys}

\* The "layout" family: pages of up to MaxBlocks blocks at any vertical
\* position, each an image block, an unknown block or one of five text
\* blocks: no line, a blank line, a plain line, a numbered line of two cells,
\* and two such lines.
PlainLine == [spans |-> <<Span(<<"a">>, 14, 17)>>]
BlankLine == [spans |-> <<Span(<<" ">>, 27, 30)>>]
NumberedLine == [spans |-> <<Span(<<"2", ")">>, 0, 5), Span(<<"b">>, 15, 18)>>]

LayoutBlocks ==
    {TextBlock(ls, y) : ls \in {<<>>, <<BlankLine>>, <<PlainLine>>, <<NumberedLine>>,
                                <<NumberedLine, NumberedLine>>},
                        y \in YPool}
    \cup NonTextBlocks({<<>>, <<1>>}, YPool)

\* The "block" family: pages of one block, either a text block of one of the
\* two pools or a block that is no text.
PagePool(family) ==
    IF family = "layout"
    THEN SeqsUpTo(LayoutBlocks, MaxBlocks)
    ELSE {<<TextBlock(ls, 0)>> : ls \in BlockLines(TextSpans) \cup BlockLines(TableSpans)}
         \cup {<<b>> : b \in NonTextBlocks(Payloads, {0})}

\* page.get_images(full=True): up to MaxImages references; in the "block"
\* family a page whose block is a text block embeds no image.
ImageIndex(family, bs) ==
    IF family = "block" /\ \E i \in 1..Len(bs) : bs[i].type = 0
    THEN {<<>>}
    ELSE SeqsUpTo({7}, MaxImages)

\* What the translation model can return, before the decoded text is stripped:
\* nothing, 3 Chinese characters of 20 between two spaces (0.15 once stripped),
\* and 2 Chinese characters of 14.
Latin(n) == [i \in 1..n |-> "x"]
Zh(n) == [i \in 1..n |-> Chinese]
TranslatorOutputs ==
    { <<>>,
      <<" ">> \o Zh(3) \o Latin(17) \o <<" ">>,
      Zh(2) \o Latin(12) }

---------------------------------------------------------------------------
(***************************************************************************)
(* The document sink.  items holds, in order, the kind and the source     *)
(* block of what the sink received since the last page break.  The sink is *)
(* never read back: item is the table or paragraph added last, written the *)
(* text handed over last (a paragraph's text, or the text of one cell).    *)
(* pictures holds every payload add_picture took in the whole document.    *)
(***************************************************************************)

Entry(kind, src) == [kind |-> kind, src |-> src]

Item(kind, src) ==
    [kind |-> kind, src |-> src, text |-> <<>>, style |-> "", indent |-> 0,
     rows |-> 0, cols |-> 0]

NoItem == Item("", 0)

Paragraph(src, text, style, indent) ==
    [Item(IF style = "" THEN "Paragraph" ELSE "ListItem", src)
        EXCEPT !.text = text, !.style = style, !.indent = indent]

Table(src, rows, cols) ==
    [Item("Table", src) EXCEPT !.rows = rows, !.cols = cols]

NewDocument ==
    [items |-> <<>>, pictures |-> <<>>, breaks |-> 0, saved |-> "no"]

NoWrite ==
    [kind |-> "", source |-> <<>>, translated |-> None, final |-> <<>>,
     row |-> 0, col |-> 0]

NoAttempt == [raised |-> FALSE, returned |-> FALSE, candidate |-> <<>>]
Raised == [raised |-> TRUE, returned |-> FALSE, candidate |-> <<>>]
Returned(candidate) == [raised |-> FALSE, returned |-> TRUE, candidate |-> candidate]

NoGate ==
    [text |-> <<>>, attempt |-> 0, translated_text |-> None, calls |-> 0,
     last |-> NoAttempt]

\* MD5 of the payload.  The digest is a function of the bytes into a finite
\* space: equal payloads have equal digests, distinct payloads may share one.
DigestSpace == 4

RECURSIVE ByteSum(_)
ByteSum(b) == IF b = <<>> THEN 0 ELSE Head(b) + ByteSum(Tail(b))

get_image_key(img_bytes) == ByteSum(img_bytes) % DigestSpace

---------------------------------------------------------------------------
(* translate_pdf_to_word_with_styles_improved, up to the block loop.       *)

Init ==
    /\ pool = "layout"
    /\ pc = "page"
    /\ num_pages \in 0..MaxPages
    /\ page_num = 0
    /\ blocks = <<>>
    /\ page_left_margin = 0
    /\ bi = 1
    /\ line_text = <<>>
    /\ units = <<>>
    /\ ui = 1
    /\ gate = NoGate
    /\ processed_keys = {}
    /\ images = <<>>
    /\ ii = 1
    /\ word_doc = NewDocument
    /\ item = NoItem
    /\ written = NoWrite
    /\ seen = {}

InitBlock ==
    /\ pool = "block"
    /\ pc = "page"
    /\ num_pages = 1
    /\ page_num = 0
    /\ blocks = <<>>
    /\ page_left_margin = 0
    /\ bi = 1
    /\ line_text = <<>>
    /\ units = <<>>
    /\ ui = 1
    /\ gate = NoGate
    /\ processed_keys = {}
    /\ images = <<>>
    /\ ii = 1
    /\ word_doc = NewDocument
    /\ item = NoItem
    /\ written = NoWrite
    /\ seen = {}

\* The extractor's blocks, each tagged with its position in the extractor's order.
Tagged(raw) == [i \in 1..Len(raw) |-> [raw[i] EXCEPT !.pos = i]]

\* The page's blocks left in the extractor's order.
sort_blocks_skipped(raw) == raw

\* blocks.sort(key=lambda b: b["bbox"][1])
sort_blocks(raw) == sorted_by(raw, 2)

RECURSIVE FirstXs(_, _)
\* all_x: spans[0]["bbox"][0] of every line with spans of every text block.
FirstXs(bs, i) ==
    IF i > Len(bs) THEN {}
    ELSE (IF bs[i].type = 0
          THEN {x0_of(bs[i].lines[l].spans[1]) :
                    l \in {k \in 1..Len(bs[i].lines) : bs[i].lines[k].spans # <<>>}}
          ELSE {})
         \cup FirstXs(bs, i + 1)

Min(S) == CHOOSE x \in S : \A y \in S : x <= y

left_margin(bs) == IF FirstXs(bs, 1) = {} THEN 0 ELSE Min(FirstXs(bs, 1))

\* One turn of the page loop up to the block loop: the heading, the page's
\* blocks sorted, the left margin.
StartPage ==
    /\ pc = "page"
    /\ page_num < num_pages
    /\ \E raw \in PagePool(pool) :
          /\ blocks' = sort_blocks(Tagged(raw))
          /\ page_left_margin' = left_margin(sort_blocks(Tagged(raw)))
    /\ word_doc' = [word_doc EXCEPT !.items = Append(@, Entry("Heading", 0))]
    /\ bi' = 1
    /\ pc' = "walk"
    /\ UNCHANGED <<pool, num_pages, page_num, line_text, units, ui, gate,
                   processed_keys, images, ii, item, written, seen>>

---------------------------------------------------------------------------
(* The block loop: text blocks.                                            *)

InBlock == pc = "walk" /\ bi <= Len(blocks)
block == blocks[bi]

Unit(kind, text, style, indent, row, col) ==
    [kind |-> kind, text |-> text, style |-> style, indent |-> indent,
     row |-> row, col |-> col]

\* table_data: merge_spans_for_table of every line.
table_data(b) == [i \in 1..Len(b.lines) |-> merge_spans_for_table(b.lines[i].spans)]

\* The cells in the order the two loops over table_data visit them.
table_units(data, num_cols) ==
    [n \in 1..(Len(data) * num_cols) |->
        LET i == ((n - 1) \div num_cols) + 1
            j == ((n - 1) % num_cols) + 1
        IN  Unit("cell", IF j <= Len(data[i]) THEN data[i][j] ELSE <<>>, "", 0, i, j)]

RECURSIVE LinesInfo(_, _, _)
\* lines_info: (line_text, first_x) of every line whose text is not blank.
LinesInfo(lines, i, margin) ==
    IF i > Len(lines) THEN <<>>
    ELSE LET spans == lines[i].spans
             text == join_spans(spans)
             first_x == IF spans # <<>> THEN x0_of(spans[1]) ELSE margin
         IN  (IF strip(text) # <<>>
              THEN <<[text |-> text, first_x |-> first_x]>>
              ELSE <<>>)
             \o LinesInfo(lines, i + 1, margin)

lines_info(b, margin) == LinesInfo(b.lines, 1, margin)

\* The list test with any() where the code has all().
is_list_any(info) ==
    \E i \in 1..Len(info) :
        list_pattern_number(info[i].text) > 0 \/ list_pattern_bullet(info[i].text) > 0

is_list(info) ==
    \A i \in 1..Len(info) :
        list_pattern_number(info[i].text) > 0 \/ list_pattern_bullet(info[i].text) > 0

list_units(info, margin) ==
    [i \in 1..Len(info) |->
        LET text == info[i].text
            indent == info[i].first_x - margin
        IN  IF list_pattern_number(text) > 0
            THEN Unit("list", strip_marker(text, list_pattern_number(text)),
                      "List Number", indent, 0, 0)
            ELSE Unit("list", strip_marker(text, list_pattern_bullet(text)),
                      "List Bullet", indent, 0, 0)]

RECURSIVE JoinLines(_, _)
\* "\n".join(text for text, _ in lines_info)
JoinLines(info, i) ==
    IF i > Len(info) THEN <<>>
    ELSE IF i = Len(info) THEN info[i].text
    ELSE info[i].text \o <<"\n">> \o JoinLines(info, i + 1)

\* The indent taken as the absolute position, the margin forgotten.
paragraph_indent_absolute(info, margin) == info[1].first_x

paragraph_indent(info, margin) == info[1].first_x - margin

paragraph_unit(info, margin) ==
    Unit("para", JoinLines(info, 1), "", paragraph_indent(info, margin), 0, 0)

\* The branch of the if/else chain a text block takes.
route(b, margin) ==
    IF is_table_block(b) THEN "table"
    ELSE IF lines_info(b, margin) = <<>> THEN "empty"
    ELSE IF is_list(lines_info(b, margin)) THEN "list"
    ELSE "paragraph"

TextBlockOn(branch) ==
    InBlock /\ block.type = 0 /\ route(block, page_left_margin) = branch

\* A table block: add_table, then one translation unit per cell.
BlockTable ==
    /\ TextBlockOn("table")
    /\ LET data == table_data(block)
           num_rows == Len(data)
           num_cols == IF data # <<>> THEN Len(data[1]) ELSE 0
       IN  IF num_cols = 0
           THEN /\ bi' = bi + 1
                /\ UNCHANGED <<pc, units, word_doc, item>>
           ELSE /\ word_doc' = [word_doc EXCEPT
                        !.items = Append(@, Entry("Table", block.pos))]
                /\ item' = Table(block.pos, num_rows, num_cols)
                /\ units' = table_units(data, num_cols)
                /\ pc' = "unit"
                /\ bi' = bi
    /\ ui' = 1
    /\ line_text' = <<>>
    /\ UNCHANGED <<pool, num_pages, page_num, blocks, page_left_margin, gate,
                   processed_keys, images, ii, written, seen>>


\* line_text of every line of the block, as the loop over the lines computes it.
joined(b) == [i \in 1..Len(b.lines) |-> join_spans(b.lines[i].spans)]

\* A block with no line left in lines_info is passed over.
BlockEmpty ==
    /\ TextBlockOn("empty")
    /\ line_text' = joined(block)
    /\ bi' = bi + 1
    /\ UNCHANGED <<pool, pc, num_pages, page_num, blocks, page_left_margin, units,
                   ui, gate, processed_keys, images, ii, word_doc, item, written,
                   seen>>

\* A list block: one translation unit per line of lines_info.
BlockList ==
    /\ TextBlockOn("list")
    /\ line_text' = joined(block)
    /\ units' = list_units(lines_info(block, page_left_margin), page_left_margin)
    /\ ui' = 1
    /\ pc' = "unit"
    /\ UNCHANGED <<pool, num_pages, page_num, blocks, page_left_margin, bi, gate,
                   processed_keys, images, ii, word_doc, item, written, seen>>

\* Any other text block: one paragraph, one translation unit.
BlockParagraph ==
    /\ TextBlockOn("paragraph")
    /\ line_text' = joined(block)
    /\ units' = <<paragraph_unit(lines_info(block, page_left_margin), page_left_margin)>>
    /\ ui' = 1
    /\ pc' = "unit"
    /\ UNCHANGED <<pool, num_pages, page_num, blocks, page_left_margin, bi, gate,
                   processed_keys, images, ii, word_doc, item, written, seen>>

\* The call of translate_text for the next unit of the block.
TranslateCall ==
    /\ pc = "unit"
    /\ ui <= Len(units)
    /\ gate' = [NoGate EXCEPT !.text = units[ui].text]
    /\ pc' = "gate"
    /\ UNCHANGED <<pool, num_pages, page_num, blocks, page_left_margin, bi,
                   line_text, units, ui, processed_keys, images, ii, word_doc,
                   item, written, seen>>

\* Every unit of the block is written: the block loop goes on.
BlockDone ==
    /\ pc = "unit"
    /\ ui > Len(units)
    /\ units' = <<>>
    /\ ui' = 1
    /\ bi' = bi + 1
    /\ item' = NoItem
    /\ written' = NoWrite
    /\ line_text' = <<>>
    /\ pc' = "walk"
    /\ UNCHANGED <<pool, num_pages, page_num, blocks, page_left_margin, gate,
                   processed_keys, images, ii, word_doc, seen>>

---------------------------------------------------------------------------
(* translate_text: one action per attempt, by what the model does.         *)

\* The loop with its bound off by one: a fourth attempt follows the third.
more_attempts_off_by_one(attempt) == attempt < max_attempts

\* for attempt in range(max_attempts): whether another attempt follows.
more_attempts(attempt) == attempt + 1 < max_attempts

\* The model raised: the except clause, and the loop goes on.
TranslatorRaises ==
    /\ pc = "gate"
    /\ gate' = [gate EXCEPT
            !.attempt = @ + 1,
            !.translated_text = IF gate.attempt = max_attempts - 1 THEN None ELSE @,
            !.calls = @ + 1,
            !.last = Raised]
    /\ pc' = IF more_attempts(gate.attempt) THEN "gate" ELSE "return"
    /\ UNCHANGED <<pool, num_pages, page_num, blocks, page_left_margin, bi,
                   line_text, units, ui, processed_keys, images, ii, word_doc,
                   item, written, seen>>

\* The model returned: the candidate is decoded, stripped and weighed.
TranslatorReturns ==
    /\ pc = "gate"
    /\ \E raw \in TranslatorOutputs :
          LET candidate_text == strip(raw)
          IN  IF ratio_ok(candidate_text)
              THEN /\ gate' = [gate EXCEPT
                           !.translated_text = Some(candidate_text),
                           !.calls = @ + 1,
                           !.last = Returned(candidate_text)]
                   /\ pc' = "return"
              ELSE /\ gate' = [gate EXCEPT
                           !.attempt = @ + 1,
                           !.calls = @ + 1,
                           !.last = Returned(candidate_text)]
                   /\ pc' = IF more_attempts(gate.attempt) THEN "gate" ELSE "return"
    /\ UNCHANGED <<pool, num_pages, page_num, blocks, page_left_margin, bi,
                   line_text, units, ui, processed_keys, images, ii, word_doc,
                   item, written, seen>>

\* The write without the fallback: whatever translate_text returned.
final_text_unchecked(translated, text) == translated.val

\* translated if (translated and translated != text) else text
final_text(translated, text) ==
    IF translated.some /\ translated.val # <<>> /\ translated.val # text
    THEN translated.val
    ELSE text

\* translate_text has returned: the unit's text goes to the sink.
WriteUnit ==
    /\ pc = "return"
    /\ LET unit == units[ui]
           final == final_text(gate.translated_text, unit.text)
       IN  /\ IF unit.kind = "cell"
              THEN UNCHANGED <<item, word_doc>>
              ELSE /\ item' = Paragraph(block.pos, final, unit.style, unit.indent)
                   /\ word_doc' = [word_doc EXCEPT
                          !.items = Append(@, Entry(item'.kind, block.pos))]
           /\ written' = [kind |-> unit.kind, source |-> unit.text,
                          translated |-> gate.translated_text, final |-> final,
                          row |-> unit.row, col |-> unit.col]
    /\ ui' = ui + 1
    /\ gate' = NoGate
    /\ pc' = "unit"
    /\ UNCHANGED <<pool, num_pages, page_num, blocks, page_left_margin, bi,
                   line_text, units, processed_keys, images, ii, seen>>

---------------------------------------------------------------------------
(* The block loop: image blocks and blocks of another type.                *)

\* pdf_doc.extract_image(xref): it raises, or gives a dictionary whose
\* "image" is missing or a payload.
ExtractOutcomes ==
    {[raised |-> TRUE, image |-> None], [raised |-> FALSE, image |-> None]}
    \cup {[raised |-> FALSE, image |-> Some(b)] : b \in Payloads}

\* The image handling without the test of processed_keys.
add_image_unchecked(img, src, sink_ok) ==
    IF ~img.some \/ img.val = <<>>
    THEN [keys |-> processed_keys, doc |-> word_doc, seen |-> seen]
    ELSE [keys |-> processed_keys \cup {get_image_key(img.val)},
          doc |-> IF sink_ok
                  THEN [word_doc EXCEPT !.items = Append(@, Entry("Image", src)),
                                        !.pictures = Append(@, img.val)]
                  ELSE word_doc,
          seen |-> seen \cup {img.val}]

\* From "if not img_bytes" to add_picture, the same on the block path and on
\* the fallback path: processed_keys, the sink and the payloads seen, after
\* the payload img (if any) was handled; sink_ok is whether add_picture
\* takes the picture (it raises otherwise, into the except clause).
add_image(img, src, sink_ok) ==
    IF ~img.some \/ img.val = <<>>
    THEN [keys |-> processed_keys, doc |-> word_doc, seen |-> seen]
    ELSE IF get_image_key(img.val) \in processed_keys
    THEN [keys |-> processed_keys, doc |-> word_doc, seen |-> seen \cup {img.val}]
    ELSE [keys |-> processed_keys \cup {get_image_key(img.val)},
          doc |-> IF sink_ok
                  THEN [word_doc EXCEPT !.items = Append(@, Entry("Image", src)),
                                        !.pictures = Append(@, img.val)]
                  ELSE word_doc,
          seen |-> seen \cup {img.val}]

\* xref = block.get("xref"), and block.get("image") when that is None.
block_ref(b) == IF b.xref.tag # "none" THEN b.xref ELSE b.image

\* The failure of an image block leaving the conversion.
image_error_propagates == "aborted"

\* Where control goes from the except clause of the image block: the next block.
after_image_error == "walk"

\* Where control goes from the except clause of the fallback loop: the next image.
after_fallback_error == "fallback"

\* An image block with neither "xref" nor "image".
BlockImageNoRef ==
    /\ InBlock
    /\ block.type = 1
    /\ block_ref(block).tag = "none"
    /\ bi' = bi + 1
    /\ UNCHANGED <<pool, pc, num_pages, page_num, blocks, page_left_margin,
                   line_text, units, ui, gate, processed_keys, images, ii,
                   word_doc, item, written, seen>>

\* An image block whose reference is no number (int(xref) raises) or whose
\* extract_image raises.
BlockImageError ==
    /\ InBlock
    /\ block.type = 1
    /\ block_ref(block).tag \in {"str", "int"}
    /\ bi' = bi + 1
    /\ pc' = after_image_error
    /\ UNCHANGED <<pool, num_pages, page_num, blocks, page_left_margin,
                   line_text, units, ui, gate, processed_keys, images, ii,
                   word_doc, item, written, seen>>

\* An image block whose payload is its "image" bytes or what extract_image gives.
BlockImage ==
    /\ InBlock
    /\ block.type = 1
    /\ block_ref(block).tag \in {"bytes", "int"}
    /\ \E out \in {o \in ExtractOutcomes : ~o.raised}, sink_ok \in BOOLEAN :
          LET img == IF block_ref(block).tag = "bytes"
                     THEN Some(block_ref(block).val)
                     ELSE out.image
              r == add_image(img, block.pos, sink_ok)
          IN  /\ processed_keys' = r.keys
              /\ word_doc' = r.doc
              /\ seen' = r.seen
              /\ pc' = IF sink_ok THEN "walk" ELSE after_image_error
    /\ bi' = bi + 1
    /\ UNCHANGED <<pool, num_pages, page_num, blocks, page_left_margin,
                   line_text, units, ui, gate, images, ii, item, written>>

\* A block of another type: a diagnostic.
BlockUnknown ==
    /\ InBlock
    /\ block.type \notin {0, 1}
    /\ bi' = bi + 1
    /\ UNCHANGED <<pool, pc, num_pages, page_num, blocks, page_left_margin,
                   line_text, units, ui, gate, processed_keys, images, ii,
                   word_doc, item, written, seen>>

---------------------------------------------------------------------------
(* The fallback pass, the page break and the save.                         *)

\* The block loop is over: images = page.get_images(full=True).
EndBlocks ==
    /\ pc = "walk"
    /\ bi > Len(blocks)
    /\ images' \in ImageIndex(pool, blocks)
    /\ ii' = 1
    /\ pc' = "fallback"
    /\ UNCHANGED <<pool, num_pages, page_num, blocks, page_left_margin, bi,
                   line_text, units, ui, gate, processed_keys, word_doc, item,
                   written, seen>>

FallbackImage ==
    /\ pc = "fallback"
    /\ ii <= Len(images)
    /\ \E out \in ExtractOutcomes, sink_ok \in BOOLEAN :
          LET r == add_image(out.image, 0, sink_ok)
          IN  IF out.raised
              THEN /\ pc' = after_fallback_error
                   /\ UNCHANGED <<processed_keys, word_doc, seen>>
              ELSE /\ processed_keys' = r.keys
                   /\ word_doc' = r.doc
                   /\ seen' = r.seen
                   /\ pc' = IF sink_ok THEN "fallback" ELSE after_fallback_error
    /\ ii' = ii + 1
    /\ UNCHANGED <<pool, num_pages, page_num, blocks, page_left_margin, bi,
                   line_text, units, ui, gate, images, item, written>>

\* word_doc.add_page_break(), and the page loop goes on.
PageBreak ==
    /\ pc = "fallback"
    /\ ii > Len(images)
    /\ word_doc' = [word_doc EXCEPT !.breaks = @ + 1, !.items = <<>>]
    /\ page_num' = page_num + 1
    /\ blocks' = <<>>
    /\ bi' = 1
    /\ line_text' = <<>>
    /\ images' = <<>>
    /\ ii' = 1
    /\ pc' = "page"
    /\ UNCHANGED <<pool, num_pages, page_left_margin, units, ui, gate,
                   processed_keys, item, written, seen>>

\* word_doc.save(output_file): saved, or the failure printed.
Save ==
    /\ pc = "page"
    /\ page_num >= num_pages
    /\ \E result \in {"yes", "failed"} :
          word_doc' = [word_doc EXCEPT !.saved = result]
    /\ pc' = "done"
    /\ UNCHANGED <<pool, num_pages, page_num, blocks, page_left_margin, bi,
                   line_text, units, ui, gate, processed_keys, images, ii, item,
                   written, seen>>

Next ==
    \/ StartPage
    \/ BlockTable
    \/ BlockEmpty
    \/ BlockList
    \/ BlockParagraph
    \/ TranslateCall
    \/ TranslatorRaises
    \/ TranslatorReturns
    \/ WriteUnit
    \/ BlockDone
    \/ BlockImageNoRef
    \/ BlockImageError
    \/ BlockImage
    \/ BlockUnknown
    \/ EndBlocks
    \/ FallbackImage
    \/ PageBreak
    \/ Save

Spec == Init /\ [][Next]_vars

SpecBlock == InitBlock /\ [][Next]_vars

---------------------------------------------------------------------------
(* The translation gate.                                                   *)

\* A candidate the gate must accept: not empty, and at least 0.15 = 3/20 of
\* its characters lie in U+4E00..U+9FFF.
Acceptable(c) ==
    /\ Len(c) > 0
    /\ 20 * Cardinality({i \in 1..Len(c) : c[i] = Chinese}) >= 3 * Len(c)

LastAcceptable == gate.last.returned /\ Acceptable(gate.last.candidate)

\* C1: one call of translate_text invokes the model at most 3 times; while
\* the call goes on no candidate so far was acceptable; it returns at the
\* first acceptable candidate, with exactly that candidate, and with None
\* only after 3 attempts none of which was acceptable; an error of the
\* model leaves control inside translate_text or at its normal return.
GateBoundedAndExact ==
    /\ gate.calls <= 3
    /\ pc = "gate" =>
          /\ gate.calls < 3
          /\ ~LastAcceptable
          /\ gate.translated_text = None
    /\ pc = "return" =>
          IF LastAcceptable
          THEN gate.translated_text = Some(gate.last.candidate)
          ELSE gate.translated_text = None /\ gate.calls = 3
    /\ gate.last.raised => pc \in {"gate", "return"}
    /\ pc \notin {"gate", "return"} => gate.calls = 0

\* Two failed attempts, then an acceptable candidate at the third attempt.
GateAcceptsThirdAttempt ==
    /\ pc = "return"
    /\ gate.calls = 3
    /\ gate.translated_text.some
    /\ gate.attempt = 2

---------------------------------------------------------------------------
(* The text written for a translation unit.                                *)

\* C2: the text written for a cell, a list item or a paragraph is a
\* candidate the gate accepted or the unit's source text, and it is not
\* empty when the source text is not empty; a list item or paragraph
\* carries exactly that text.
WrittenIsAcceptedOrSource ==
    written.kind # "" =>
        /\ \/ written.final = written.source
           \/ /\ written.translated.some
              /\ Acceptable(written.translated.val)
              /\ written.final = written.translated.val
        /\ written.source # <<>> => written.final # <<>>
        /\ written.kind # "cell" => item.text = written.final

\* The gate gave None for a unit with a source text: the source text is written.
WrittenFallsBackToSource ==
    /\ written.kind = "para"
    /\ ~written.translated.some
    /\ written.source # <<>>
    /\ written.final = written.source
    /\ item.text = written.source

---------------------------------------------------------------------------
(* The image deduplication.                                                *)

pictures == word_doc.pictures

Occurrences(p) == Cardinality({i \in 1..Len(pictures) : pictures[i] = p})

OnePicturePerKey ==
    /\ \A i, j \in 1..Len(pictures) :
          get_image_key(pictures[i]) = get_image_key(pictures[j]) => i = j
    /\ \A i \in 1..Len(pictures) : pictures[i] \in seen /\ pictures[i] # <<>>
    /\ processed_keys = {get_image_key(p) : p \in seen}
    /\ Len(pictures) <= Cardinality(seen)

\* A step adds at most one picture, at the end, and only a picture whose
\* fingerprint was not in processed_keys before the step.
PictureOnlyAtFirstKey ==
    \/ pictures' = pictures
    \/ /\ Len(pictures') = Len(pictures) + 1
       /\ SubSeq(pictures', 1, Len(pictures)) = pictures
       /\ get_image_key(pictures'[Len(pictures')]) \notin processed_keys

---------------------------------------------------------------------------
(* The routing of the text blocks.                                         *)

\* The block at position j of the page has been dealt with up to the point
\* where its table or its first unit is fixed / up to its end.
Entered(j) == j < bi \/ pc = "fallback" \/ (j = bi /\ pc \in {"unit", "gate", "return"})
Finished(j) == j < bi \/ pc = "fallback"

\* What the sink received from the block, in order.
FromBlock(b) == SelectSeq(word_doc.items, LAMBDA e : e.src = b.pos)

\* The spans of a line from left to right: the arrangement of the spans in
\* which x0 never decreases and spans of equal x0 keep their order.
Ascending(spans) ==
    LET n == Len(spans)
        p == CHOOSE q \in [1..n -> 1..n] :
                /\ \A i, j \in 1..n : i # j => q[i] # q[j]
                /\ \A i, j \in 1..n :
                      i < j => \/ x0_of(spans[q[i]]) < x0_of(spans[q[j]])
                               \/ /\ x0_of(spans[q[i]]) = x0_of(spans[q[j]])
                                  /\ q[i] < q[j]
    IN  [i \in 1..n |-> spans[p[i]]]

\* The cells of a line: one, and one more for every span that starts 10 or
\* more to the right of the right edge of the span before it.
CellCount(spans) ==
    IF spans = <<>> THEN 0
    ELSE LET s == Ascending(spans)
         IN  1 + Cardinality({i \in 2..Len(s) : x0_of(s[i]) - x1_of(s[i - 1]) >= 10})

TableShape(b) ==
    /\ Len(b.lines) >= 2
    /\ \A l \in 1..Len(b.lines) : CellCount(b.lines[l].spans) >= 2
    /\ \A l, m \in 1..Len(b.lines) : CellCount(b.lines[l].spans) = CellCount(b.lines[m].spans)

\* C4: a text block is emitted as a table if and only if it has at least 2
\* lines, every line has at least 2 cells and all lines have the same
\* number of cells, whether or not its lines are list lines; the table then
\* has one row per line and one column per cell of a line, and the block
\* emits the table and nothing else.
TableIffShape ==
    /\ \A j \in 1..Len(blocks) :
          (blocks[j].type = 0 /\ Entered(j)) =>
              IF TableShape(blocks[j])
              THEN FromBlock(blocks[j]) = <<Entry("Table", blocks[j].pos)>>
              ELSE \A i \in 1..Len(word_doc.items) :
                      word_doc.items[i].src = blocks[j].pos => word_doc.items[i].kind # "Table"
    /\ item.kind = "Table" =>
          /\ item.src = blocks[bi].pos
          /\ TableShape(blocks[bi])
          /\ item.rows = Len(blocks[bi].lines)
          /\ item.cols = CellCount(blocks[bi].lines[1].spans)

\* A block of two numbered lines of two cells each is emitted as a table of
\* 2 rows and 2 columns.
ListLinesEmittedAsTable ==
    /\ pc = "unit"
    /\ item.kind = "Table"
    /\ item.rows = 2
    /\ item.cols = 2
    /\ \A l \in 1..Len(blocks[bi].lines) :
          list_pattern_number(join_spans(blocks[bi].lines[l].spans)) > 0

\* Every character of every span of the block is whitespace.
AllBlank(b) ==
    \A l \in 1..Len(b.lines) :
        \A k \in 1..Len(b.lines[l].spans) :
            \A c \in 1..Len(b.lines[l].spans[k].text) :
                IsSpace(b.lines[l].spans[k].text[c])

\* C5 as claimed: a text block none of whose lines has a text that is not
\* blank emits no table, list item or paragraph, and translate_text is not
\* called for it.
BlankBlockSkipped ==
    \A j \in 1..Len(blocks) :
        (blocks[j].type = 0 /\ AllBlank(blocks[j]) /\ Entered(j)) =>
            /\ FromBlock(blocks[j]) = <<>>
            /\ j = bi => pc \notin {"unit", "gate", "return"}

---------------------------------------------------------------------------
(* The order of the page's items.                                          *)

\* The block of the page the extractor gave at position src.
BlockAt(src) == blocks[CHOOSE j \in 1..Len(blocks) : blocks[j].pos = src]

\* The items of the page that come from its blocks.
BlockItems == SelectSeq(word_doc.items, LAMBDA e : e.src > 0)

\* C6: of two items emitted from the page's blocks, the earlier comes from a
\* block with the smaller y0, or from a block with the same y0 that the
\* extractor gave no later; whatever the translator did in between.
ItemsInReadingOrder ==
    \A i, j \in 1..Len(BlockItems) :
        i < j =>
            LET a == BlockAt(BlockItems[i].src)
                b == BlockAt(BlockItems[j].src)
            IN  \/ y0_of(a) < y0_of(b)
                \/ y0_of(a) = y0_of(b) /\ a.pos <= b.pos

\* The extractor gave the lower block first: its item comes second.
LowerBlockGivenFirstEmittedLast ==
    /\ Len(BlockItems) = 2
    /\ BlockItems[1].src = 2
    /\ BlockItems[2].src = 1
    /\ y0_of(BlockAt(2)) < y0_of(BlockAt(1))

---------------------------------------------------------------------------
(* Failures of single units.                                               *)

Positions == {"page", "walk", "unit", "gate", "return", "fallback", "done"}

\* Until it has saved, the conversion is at a position from which the code
\* goes on: in the block loop at a block or at the loop's end, in the unit
\* loop at a unit or at its end, back from translate_text at a unit.
StaysOnCourse ==
    /\ pc \in Positions
    /\ pc = "walk" => bi \in 1..(Len(blocks) + 1)
    /\ pc \in {"unit", "gate", "return"} => bi \in 1..Len(blocks) /\ ui \in 1..(Len(units) + 1)
    /\ pc \in {"gate", "return"} => ui <= Len(units)
    /\ pc = "gate" => gate.attempt < max_attempts
    /\ pc = "fallback" => bi = Len(blocks) + 1 /\ ii \in 1..(Len(images) + 1)
    /\ page_num <= num_pages
    /\ word_doc.breaks = page_num
    /\ pc = "done" => page_num = num_pages /\ word_doc.saved # "no"
    /\ pc # "done" => word_doc.saved = "no"

\* What is left to do, most significant first: the pages, the phase of the
\* page, the blocks or images of the phase, the units of the block, the
\* attempts of the unit.
Remaining ==
    << IF pc = "done" THEN 0 ELSE 1 + (num_pages - page_num),
       CASE pc = "page" -> 3
         [] pc \in {"walk", "unit", "gate", "return"} -> 2
         [] pc = "fallback" -> 1
         [] OTHER -> 0,
       CASE pc \in {"walk", "unit", "gate", "return"} -> (Len(blocks) + 1) - bi
         [] pc = "fallback" -> (Len(images) + 1) - ii
         [] OTHER -> 0,
       IF pc = "walk" THEN 1 ELSE 0,
       IF pc \in {"unit", "gate", "return"} THEN (Len(units) + 1) - ui ELSE 0,
       CASE pc = "unit" -> 5
         [] pc = "gate" -> 4 - gate.attempt
         [] pc = "return" -> 1
         [] OTHER -> 0 >>

\* The lexicographic order of two tuples of natural numbers of one length.
LexLess(a, b) ==
    \E k \in 1..Len(a) : a[k] < b[k] /\ \A i \in 1..(k - 1) : a[i] = b[i]

\* Every step leaves less to do, takes the blocks of a page one by one and
\* the pages one by one, and breaks the page exactly when it leaves a page.
Advances ==
    /\ \A k \in 1..Len(Remaining) : Remaining[k] >= 0
    /\ LexLess(Remaining', Remaining)
    /\ page_num' \in {page_num, page_num + 1}
    /\ page_num' = page_num => bi' \in {bi, bi + 1}
    /\ word_doc'.breaks - word_doc.breaks = page_num' - page_num

\* C7: whatever fails for a unit (the translator, an image block without a
\* reference, an image that cannot be resolved or has no bytes, on the
\* block path or the fallback path, a block of unknown type, a picture the
\* sink refuses), the conversion stays on course and every step leaves less
\* to do: every block of the page and every later page is still dealt with,
\* every page gets exactly one page break, and the conversion ends with the
\* save attempted.
NoUnitFailureAborts == []StaysOnCourse /\ [][Advances]_vars

\* The conversion is over after an image block whose payload the sink
\* refused, with every page broken and the document saved.
SavedAfterFailedImage ==
    /\ pc = "done"
    /\ num_pages = MaxPages
    /\ word_doc.breaks = MaxPages
    /\ word_doc.saved = "yes"
    /\ seen # {}
    /\ pictures = <<>>

---------------------------------------------------------------------------
(* The reassembly of a line.                                               *)

RECURSIVE Spaced(_)
\* The texts of spans taken from left to right, a space before a span that
\* starts more than 3 to the right of the right edge of the span before it.
Spaced(s) ==
    IF s = <<>> THEN <<>>
    ELSE IF Len(s) = 1 THEN s[1].text
    ELSE LET n == Len(s)
         IN  Spaced(SubSeq(s, 1, n - 1))
             \o (IF x0_of(s[n]) - x1_of(s[n - 1]) > 3 THEN <<" ">> ELSE <<>>)
             \o s[n].text

\* C9: join_spans gives, for every line of a text block that is no table
\* and in whatever order the extractor gave the spans, the texts of the
\* spans in ascending x0 order, with one space between two consecutive spans
\* exactly when the gap between them is more than 3, and the empty text for
\* a line without spans.
JoinedLeftToRight ==
    line_text # <<>> =>
        /\ Len(line_text) = Len(blocks[1].lines)
        /\ \A l \in 1..Len(line_text) :
              line_text[l] = Spaced(Ascending(blocks[1].lines[l].spans))

\* A line whose three spans the extractor gave from right to left: the two
\* left ones overlap and are joined directly, the right one after a space.
JoinedOutOfOrderLine ==
    /\ line_text # <<>>
    /\ line_text[1] = <<"1", ".", "-", " ", "a">>
    /\ x0_of(blocks[1].lines[1].spans[1]) = 14
    /\ x0_of(blocks[1].lines[1].spans[2]) = 7

---------------------------------------------------------------------------
(* Lists and paragraphs.                                                   *)

\* The texts of the block's lines that are not blank, in line order.
NonBlankTexts(b) ==
    SelectSeq([l \in 1..Len(b.lines) |-> Spaced(Ascending(b.lines[l].spans))],
              LAMBDA t : \E c \in 1..Len(t) : ~IsSpace(t[c]))

\* The positions of the text at which a numbered marker ends before its
\* whitespace: whitespace, at least one digit, then "." or ")", then whitespace.
NumberedAt(t) ==
    {k \in 2..(Len(t) - 1) :
        /\ t[k] \in {".", ")"}
        /\ IsSpace(t[k + 1])
        /\ \E a \in 0..(k - 2) :
              /\ \A i \in 1..a : IsSpace(t[i])
              /\ \A i \in (a + 1)..(k - 1) : IsDigit(t[i])}

\* The same for a bulleted marker: whitespace, a bullet character, whitespace.
BulletedAt(t) ==
    {k \in 1..(Len(t) - 1) :
        /\ t[k] \in {Bullet, "-", "*"}
        /\ IsSpace(t[k + 1])
        /\ \A i \in 1..(k - 1) : IsSpace(t[i])}

Marked(t) == NumberedAt(t) \cup BulletedAt(t) # {}

\* The text after the marker, without the whitespace around it.
Unmarked(t) ==
    LET k == CHOOSE m \in NumberedAt(t) \cup BulletedAt(t) : TRUE
    IN  strip(SubSeq(t, k + 1, Len(t)))

StyleOf(t) == IF NumberedAt(t) # {} THEN "List Number" ELSE "List Bullet"

\* C8: a text block that is no table and whose lines that are not blank all
\* start with a numbered or bulleted marker yields one list item per such
\* line, in line order, of the kind of the line's own marker and translated
\* from the line's text without the marker; a block with a line that is not
\* blank and has no marker yields exactly one paragraph and no list item.
ListIffEveryLineMarked ==
    /\ \A j \in 1..Len(blocks) :
          (blocks[j].type = 0 /\ ~TableShape(blocks[j]) /\ Finished(j)) =>
              LET texts == NonBlankTexts(blocks[j])
              IN  IF \A i \in 1..Len(texts) : Marked(texts[i])
                  THEN FromBlock(blocks[j]) =
                           [i \in 1..Len(texts) |-> Entry("ListItem", blocks[j].pos)]
                  ELSE FromBlock(blocks[j]) = <<Entry("Paragraph", blocks[j].pos)>>
    /\ written.kind = "list" =>
          LET texts == NonBlankTexts(blocks[bi])
          IN  /\ \A i \in 1..Len(texts) : Marked(texts[i])
              /\ Len(FromBlock(blocks[bi])) = ui - 1
              /\ item.kind = "ListItem"
              /\ item.style = StyleOf(texts[ui - 1])
              /\ written.source = Unmarked(texts[ui - 1])
    /\ written.kind = "para" =>
          /\ \E i \in 1..Len(NonBlankTexts(blocks[bi])) : ~Marked(NonBlankTexts(blocks[bi])[i])
          /\ item.kind = "Paragraph"

\* A block of a numbered and a bulleted line: the second item is a bullet
\* item, after a number item.
MixedListSecondItem ==
    /\ written.kind = "list"
    /\ ui = 3
    /\ item.style = "List Bullet"
    /\ NumberedAt(NonBlankTexts(blocks[bi])[1]) # {}
    /\ FromBlock(blocks[bi]) = <<Entry("ListItem", 1), Entry("ListItem", 1)>>

---------------------------------------------------------------------------
(* The indent of a paragraph.                                              *)

\* The x0 of the first span, in the extractor's order, of every line with
\* spans of every text block of the page.
FirstSpanXs ==
    {x0_of(blocks[j].lines[l].spans[1]) :
        <<j, l>> \in {jl \in (1..Len(blocks)) \X (1..MaxLines) :
                        /\ blocks[jl[1]].type = 0
                        /\ jl[2] <= Len(blocks[jl[1]].lines)
                        /\ blocks[jl[1]].lines[jl[2]].spans # <<>>}}

\* The least of them, 0 when there is none.
PageMargin ==
    IF FirstSpanXs = {} THEN 0
    ELSE CHOOSE m \in FirstSpanXs : \A x \in FirstSpanXs : m <= x

\* The block's first line whose text is not blank.
FirstNonBlankLine(b) ==
    b.lines[CHOOSE l \in 1..Len(b.lines) :
               /\ \E c \in 1..Len(Spaced(Ascending(b.lines[l].spans))) :
                     ~IsSpace(Spaced(Ascending(b.lines[l].spans))[c])
               /\ \A k \in 1..(l - 1) :
                     \A c \in 1..Len(Spaced(Ascending(b.lines[k].spans))) :
                         IsSpace(Spaced(Ascending(b.lines[k].spans))[c])]

\* C10 as claimed: the indent of a paragraph is the x0 of the first span of
\* the block's first line, less the page's left margin.
IndentOfFirstLine ==
    (item.kind = "Paragraph" /\ blocks[bi].lines[1].spans # <<>>) =>
        item.indent = x0_of(blocks[bi].lines[1].spans[1]) - PageMargin

\* C10 as amended: the indent of a paragraph is the x0 of the first span, in
\* the extractor's order, of the block's first line whose text is not
\* blank, less the page's left margin; the margin is the least x0 of the
\* first span of any line with spans of any text block of the page, blank
\* lines included, and 0 when there is none.
IndentOfFirstNonBlankLine ==
    /\ pc \notin {"page", "done"} => page_left_margin = PageMargin
    /\ item.kind = "Paragraph" =>
          /\ item.src = blocks[bi].pos
          /\ item.indent = x0_of(FirstNonBlankLine(blocks[bi]).spans[1]) - PageMargin
          /\ item.indent >= 0

\* A paragraph of a block whose first line is blank and starts left of its
\* second line: the indent is that of the second line.
IndentSkipsBlankFirstLine ==
    /\ item.kind = "Paragraph"
    /\ Len(blocks[bi].lines) = 2
    /\ blocks[bi].lines[1].spans # <<>>
    /\ x0_of(blocks[bi].lines[1].spans[1]) = 0
    /\ item.indent = 14

============================================================================
